---- MODULE Spec2Model ----
(***************************************************************************)
(* The mail-ai-backend event pipeline as a state machine.                  *)
(*                                                                         *)
(* Two orchestrators exist in the repository:                              *)
(*   "process_event"       services/event_processor/processor.py           *)
(*   "process_email_event" services/email_processor/processor.py           *)
(* A deployment runs one of them (cfg.orch).  Both are asyncio coroutines: *)
(* a task yields to the event loop only at an `await` of a store (MongoDB) *)
(* operation; the Gmail and AI calls are ordinary blocking calls.  Each    *)
(* task action below is one await point: the awaited store operation takes *)
(* effect and the code after it runs up to the next await (or the return). *)
(* The pc of a task names the store operation it is waiting for.           *)
(***************************************************************************)
EXTENDS Integers, Sequences, FiniteSets, TLC

VARIABLES cfg, now, user, mailbox, logs, tracker, tasks, ended,
          db,       \* the store connection of the event-processor service
          prompt,   \* a prompt compositor called on its own: its inputs and its result
          dedup,    \* a deduplication tracker called on its own, and the ids it was given
          loop,     \* the event loop seen on its own: who holds it, where each task is
          sub       \* the Pub/Sub subscription: the notifications handed to callback

\* the pipeline
pipeline == <<cfg, now, user, mailbox, logs, tracker, tasks, ended, db>>
\* the components exercised on their own
units == <<prompt, dedup, loop, sub>>

vars == <<pipeline, units>>

----------------------------------------------------------------------------
(* Bounds of the model *)

\* messages in the mailbox: with overlapping runs, with runs one after another
MaxMsgs == 2
MaxMsgsSeq == 3
MaxTime == 1
MaxLogs == 4
\* a tracker called on its own: the ids offered and the calls made since it was empty
MaxIds == 3
MaxCalls == 4
\* a template: the number of its pieces
MaxPieces == 2
\* notifications delivered to callback
MaxNotes == 2

(* Program constants.  The source values are 100 and 1000; they are scaled *)
(* down so that a thread can outgrow the read limit and the tracker can    *)
(* overflow within the bounds above.                                       *)
THREAD_LOG_LIMIT == 1
HISTORY_MAX_SIZE == 2

Tasks == {1, 2}
Threads == {"T1", "T2"}
\* a message whose threadId is the empty string
NoThread == ""
Orchestrators == {"process_event", "process_email_event"}
KnownProviders == {"gemini", "openai"}
Providers == KnownProviders \cup {"claude"}
TzOffsets == {-1, 0, 1}
\* context_depth at and beyond the read limit
Depths == {THREAD_LOG_LIMIT, THREAD_LOG_LIMIT + 2}
\* what the provider stack does in a deployment: it works, the provider call
\* fails, the API key is missing, the OpenAI client fails to construct
Faults == {"none", "call", "key", "init"}
\* CONTEXT_AWARE_PROMPT: well-formed, or with an unbalanced brace
Templates == {"ok", "malformed"}

None == <<>>
Some(x) == <<x>>

----------------------------------------------------------------------------
(* Pure helpers *)

Range(s) == {s[i] : i \in 1..Len(s)}

LastN_head(s, n) == IF Len(s) <= n THEN s ELSE SubSeq(s, 1, n)

\* seq[-n:] of Python for n >= 1
LastN(s, n) == IF Len(s) <= n THEN s ELSE SubSeq(s, Len(s) - n + 1, Len(s))

FirstN(s, n) == IF Len(s) <= n THEN s ELSE SubSeq(s, 1, n)

RECURSIVE SelectThread(_, _)
SelectThread(s, thread_id) ==
    IF s = <<>> THEN <<>>
    ELSE IF Head(s).thread_id = thread_id
         THEN <<Head(s)>> \o SelectThread(Tail(s), thread_id)
         ELSE SelectThread(Tail(s), thread_id)

\* stable insertion of x into a sequence sorted by timestamp
RECURSIVE InsertByTs(_, _)
InsertByTs(s, x) ==
    IF s = <<>> THEN <<x>>
    ELSE IF x.timestamp < Head(s).timestamp
         THEN <<x>> \o s
         ELSE <<Head(s)>> \o InsertByTs(Tail(s), x)

\* sort by timestamp ascending, stable
RECURSIVE SortByTimestamp(_)
SortByTimestamp(s) ==
    IF s = <<>> THEN <<>>
    ELSE InsertByTs(SortByTimestamp(SubSeq(s, 1, Len(s) - 1)), s[Len(s)])

CountId(s, id) == Cardinality({i \in 1..Len(s) : s[i].message_id = id})

Ids(s) == {s[i].message_id : i \in 1..Len(s)}

----------------------------------------------------------------------------
(* The store: common/email_repository.py *)

get_email_log_by_message_id_miss(message_id) == FALSE

get_email_log_by_message_id(message_id) == \E i \in 1..Len(logs) : logs[i].message_id = message_id

get_thread_logs(thread_id, limit) == FirstN(SortByTimestamp(SelectThread(logs, thread_id)), limit)

\* the filter {"ai_provider": {"$ne": "system-backfill"}} (and direction, when
\* given): $ne also matches a document that has no such field
UserLogsQuery(doc, direction) ==
    /\ "ai_provider" \notin DOMAIN doc \/ doc.ai_provider # "system-backfill"
    /\ direction = None \/ doc.direction = direction[1]

Reverse(s) == [i \in 1..Len(s) |-> s[Len(s) + 1 - i]]

\* MongoEmailRepository.get_user_logs: newest first, at most limit
get_user_logs(limit, direction) ==
    FirstN(Reverse(SortByTimestamp(SelectSeq(logs, LAMBDA doc : UserLogsQuery(doc, direction)))),
           limit)

----------------------------------------------------------------------------
(* Time: the Gmail internalDate is epoch time; datetime.fromtimestamp      *)
(* renders it as naive local time, datetime.utcnow() as naive UTC.         *)

fromtimestamp(internal_date) == internal_date + cfg.tz

utcnow_frozen(t) == 0

utcnow(t) == t

validate_email_age(email_time, last_started) ==
    ~(last_started # None /\ email_time < last_started[1])

----------------------------------------------------------------------------
(* The deduplication trackers *)

\* the deque carries its maxlen (deque(maxlen=...)); both services build it with 1000
EmptyTracker == [seen |-> {}, recent |-> <<>>, maxlen |-> HISTORY_MAX_SIZE]

\* deque(maxlen=n).append
DequeAppend(q, x, n) == IF Len(q) >= n THEN Tail(q) \o <<x>> ELSE Append(q, x)

\* LocalHistory: a bare deque
LocalHistory_is_seen(tr, message_id) == message_id \in Range(tr.recent)

LocalHistory_add(tr, message_id) ==
    [tr EXCEPT !.recent = DequeAppend(tr.recent, message_id, tr.maxlen)]

\* EmailDeduplicator: a set and a deque
is_duplicate(tr, message_id) == message_id \in tr.seen

clear_cache(tr) == [tr EXCEPT !.seen = {}, !.recent = <<>>]

Evict_none(tr) == tr

\* lines 54-58: popleft and discard while the set is larger than maxlen
RECURSIVE Evict(_)
Evict(tr) ==
    IF Cardinality(tr.seen) > tr.maxlen /\ tr.recent # <<>>
    THEN Evict([tr EXCEPT !.seen = @ \ {Head(tr.recent)}, !.recent = Tail(@)])
    ELSE tr

mark_processed(tr, message_id) ==
    Evict([tr EXCEPT !.seen = @ \cup {message_id},
                     !.recent = DequeAppend(@, message_id, tr.maxlen)])

TrackerAdd_skip(tr, message_id) == tr

TrackerAdd(tr, message_id) ==
    IF cfg.orch = "process_event" THEN LocalHistory_add(tr, message_id)
    ELSE mark_processed(tr, message_id)

----------------------------------------------------------------------------
(* Summaries.  A string is modelled as the sequence of its parts; NamesIn  *)
(* gives the provider names that occur in a part (ignoring case).          *)

E_QUOTA == "quota exceeded"
E_INIT == "Client.__init__() got an unexpected keyword argument"
E_FORMAT == "Single '}' encountered in format string"

MissingKey(p) == IF p = "gemini" THEN "GEMINI_API_KEY missing in .env"
                 ELSE "OPENAI_API_KEY missing in .env"

UnknownProvider(p) == <<"Unknown AI Provider:", p>>

NamesIn(part) ==
    CASE part \in {"[Gemini Error]:", "GEMINI_API_KEY missing in .env", "gemini"} -> {"gemini"}
      [] part \in {"[OpenAI Error]:", "OPENAI_API_KEY missing in .env", "openai"} -> {"openai"}
      [] part = "claude" -> {"claude"}
      [] OTHER -> {}

\* GeminiService.summarize / OpenAIService.summarize: the call never raises;
\* a failure of the provider call comes back as the variant's own sentinel
AIService_summarize(p) ==
    IF cfg.fault = "call"
    THEN <<IF p = "gemini" THEN "[Gemini Error]:" ELSE "[OpenAI Error]:", E_QUOTA>>
    ELSE <<"summary">>

\* AIFactory.get_service: the text of the exception it raises (<<>>: it returns a service)
AIFactory_get_service(p) ==
    IF p \in KnownProviders
    THEN CASE cfg.fault = "key" -> <<MissingKey(p)>>
           [] cfg.fault = "init" /\ p = "openai" -> <<E_INIT>>
           [] OTHER -> <<>>
    ELSE UnknownProvider(p)

\* str.format of the configured template: the text of the ValueError it raises
FormatError == IF cfg.template = "malformed" THEN <<E_FORMAT>> ELSE <<>>

\* process_event lines 83-90: prompt, then dispatcher and call inside the inner try.
\* raised: the exception leaves towards the outer handler
process_event_summary(p) ==
    LET e == AIFactory_get_service(p) IN
    IF FormatError # <<>>
    THEN [raised |-> TRUE, summary |-> <<>>, ai |-> 0, aifail |-> "none"]
    ELSE IF e # <<>>
    THEN [raised |-> FALSE, summary |-> <<"[AI ERROR]:">> \o e, ai |-> 0, aifail |-> "raised"]
    ELSE [raised |-> FALSE, summary |-> AIService_summarize(p), ai |-> 1,
          aifail |-> IF cfg.fault = "call" THEN "sentinel" ELSE "none"]

\* EmailSummarizer.summarize_email: dispatcher, prompt and call inside one try
summarize_email(p) ==
    LET e == AIFactory_get_service(p) IN
    IF e # <<>>
    THEN [raised |-> FALSE, summary |-> <<"AI Summarization Failed:">> \o e, ai |-> 0,
          aifail |-> "raised"]
    ELSE IF FormatError # <<>>
    THEN [raised |-> FALSE, summary |-> <<"AI Summarization Failed:">> \o FormatError, ai |-> 0,
          aifail |-> "raised"]
    ELSE [raised |-> FALSE, summary |-> AIService_summarize(p), ai |-> 1,
          aifail |-> IF cfg.fault = "call" THEN "sentinel" ELSE "none"]

SummarizeOutcome(p) ==
    IF cfg.orch = "process_event" THEN process_event_summary(p) ELSE summarize_email(p)

----------------------------------------------------------------------------
(* The prompt compositor.  A template is the sequence of its pieces: text, *)
(* the two named fields, a field of another name, a positional field, and  *)
(* a closing brace on its own.  A prompt is the sequence of its parts.     *)

Pieces == {"text", "{context}", "{email_content}", "{name}", "{}", "}"}

NO_HISTORY == "No previous conversation history."

\* PromptBuilder.DEFAULT_TEMPLATE
DEFAULT_TEMPLATE == <<"PREVIOUS CONTEXT:", "{context}", "NEW EMAIL:", "{email_content}", "TASK:">>

\* str.format(context=..., email_content=...): the template is read left to
\* right and the first piece that cannot be filled in decides the exception
RECURSIVE str_format(_, _, _)
str_format(template, context, email_content) ==
    IF template = <<>> THEN [error |-> "none", out |-> <<>>]
    ELSE LET p == Head(template)
             rest == str_format(Tail(template), context, email_content)
             put(v) == IF rest.error = "none"
                       THEN [error |-> "none", out |-> <<v>> \o rest.out]
                       ELSE rest
         IN  CASE p = "{name}" -> [error |-> "KeyError", out |-> <<>>]
               [] p = "{}" -> [error |-> "IndexError", out |-> <<>>]
               [] p = "}" -> [error |-> "ValueError", out |-> <<>>]
               [] p = "{context}" -> put(context)
               [] p = "{email_content}" -> put(email_content)
               [] OTHER -> put(p)

\* PromptBuilder.build: only a KeyError leads to the default template
PromptBuilder_build(template, context_str, email_content) ==
    LET clean_context == IF context_str # "" THEN context_str ELSE NO_HISTORY
        r == str_format(template, clean_context, email_content)
    IN  IF r.error = "KeyError"
        THEN str_format(DEFAULT_TEMPLATE, clean_context, email_content)
        ELSE r

\* EmailSummarizer._build_prompt: the fallback is an f-string over the raw context
build_prompt(template, context, email_content) ==
    LET r == str_format(template, IF context # "" THEN context ELSE NO_HISTORY, email_content)
    IN  IF r.error = "KeyError"
        THEN [error |-> "none",
              out |-> <<"Context:", context, "Email:", email_content, "Please summarize this email.">>]
        ELSE r

----------------------------------------------------------------------------
(* Initial state and the environment *)

NoUser == [exists |-> FALSE]

\* the context string: "entries" stands for one line per entry
NO_CONTEXT == "No previous context available."

NotReturned == [text |-> "(not returned)", entries |-> <<>>]

\* a task: what a run holds between two awaits, and what it has done so far
\* (mail, thr, ai: calls made to the mail provider, its thread fetch, the AI
\* capability; ns, nb: summary and backfill inserts done; hist: tracker adds;
\* nread: logs read for the thread; stored, thread: the ids stored for the
\* thread at the read and the ids the provider returned, kept while the
\* backfill insert is pending; merged: the logs read plus those backfilled;
\* context: what the assembler returned; ffail: the thread fetch raised)
FreshRun ==
    [pc |-> "get_user", reason |-> "", site |-> "", msg |-> 0, ls |-> None,
     existing |-> <<>>, batch |-> <<>>, entry |-> <<>>,
     mail |-> 0, thr |-> 0, ai |-> 0, aifail |-> "none",
     nread |-> -1, stored |-> {}, thread |-> {},
     merged |-> <<>>, context |-> NotReturned, ffail |-> FALSE,
     ns |-> 0, nb |-> 0, hist |-> 0]

IdleTask == [FreshRun EXCEPT !.pc = "idle"]

NoRun == IdleTask

\* a deployment: the server's UTC offset, the user's settings (only ever set
\* in the store by hand), the provider stack, the template, and the labels
\* and threads its mailbox sees
DefaultDeployment ==
    [tz |-> 0, ai_provider |-> "gemini", context_depth |-> THREAD_LOG_LIMIT,
     fault |-> "none", template |-> "ok", labels |-> {{"INBOX"}}, threads |-> {"T1"}]

\* the deployments vary one aspect at a time around the default
Variations ==
    {[DefaultDeployment EXCEPT !.tz = z] : z \in TzOffsets}
    \cup {[DefaultDeployment EXCEPT !.ai_provider = p] : p \in Providers}
    \cup {[DefaultDeployment EXCEPT !.context_depth = d] : d \in Depths}
    \cup {[DefaultDeployment EXCEPT !.ai_provider = x[1], !.fault = x[2]]
          : x \in (KnownProviders \X Faults) \ {<<"gemini", "init">>}}
    \cup {[DefaultDeployment EXCEPT !.template = x] : x \in Templates}
    \cup {[DefaultDeployment EXCEPT !.labels = {{"INBOX"}, l}] : l \in {{"SENT"}, {"DRAFT"}}}
    \cup {[DefaultDeployment EXCEPT !.threads = th] : th \in {Threads, {NoThread}}}

Deployments(V) ==
    {[orch |-> o, tz |-> v.tz, ai_provider |-> v.ai_provider, context_depth |-> v.context_depth,
      fault |-> v.fault, template |-> v.template, labels |-> v.labels, threads |-> v.threads]
     : o \in Orchestrators, v \in V}

NoPrompt == [fn |-> "", template |-> <<>>, context |-> "", email_content |-> "", result |-> None]
\* kind: the class; tr: the object; calls: the ids it was given since it was empty;
\* live: the ids it reports as seen, in the order in which they came in
NoDedup == [kind |-> "", tr |-> EmptyTracker, calls |-> <<>>, live |-> <<>>]

\* holder: the task running on the loop thread (0: none); at: the operation a
\* task has reached; phase: what the task is doing
\* nothing delivered yet; MAIN_LOOP and processor are set before subscribe is called
NoSub == [service |-> "running", notes |-> <<>>]

NoLoop == [holder |-> 0, at |-> [t \in Tasks |-> 0], phase |-> [t \in Tasks |-> "none"]]

Start0 ==
    /\ now = 0
    /\ user = NoUser
    /\ mailbox = <<>>
    /\ logs = <<>>
    /\ tracker = EmptyTracker
    /\ db = "connected"
    /\ tasks = [t \in Tasks |-> IdleTask]
    /\ ended = NoRun

\* no component is exercised on its own while the pipeline runs
UnitsIdle == prompt = NoPrompt /\ dedup = NoDedup /\ loop = NoLoop /\ sub = NoSub

Init == cfg \in Deployments(Variations) /\ Start0 /\ UnitsIdle

\* services/auth/main.py callback: a new user is stored inactive
AuthCallback ==
    /\ ~user.exists
    /\ user' = [exists |-> TRUE, is_active |-> FALSE, last_started_at |-> None]
    /\ ended' = NoRun
    /\ UNCHANGED <<units, db, cfg, now, mailbox, logs, tracker, tasks>>

\* services/auth/main.py toggle_status
toggle_status ==
    /\ user.exists
    /\ \E t \in {now, now + 1} :
        /\ t <= MaxTime
        /\ now' = t
        /\ user' = IF user.is_active
                   THEN [user EXCEPT !.is_active = FALSE]
                   ELSE [user EXCEPT !.is_active = TRUE,
                                     !.last_started_at = Some(utcnow(t))]
    /\ ended' = NoRun
    /\ UNCHANGED <<units, db, cfg, mailbox, logs, tracker, tasks>>

\* the mail provider: a message arrives (or is saved as a draft) in some thread;
\* thread names are interchangeable, so the first message opens T1
Arrive(max) ==
    /\ Len(mailbox) < max
    /\ \E t \in {now, now + 1}, th \in cfg.threads, ls \in cfg.labels :
        /\ t <= MaxTime
        /\ (mailbox = <<>> /\ "T1" \in cfg.threads) => th = "T1"
        /\ now' = t
        /\ mailbox' = Append(mailbox, [threadId |-> th, labelIds |-> ls, internalDate |-> t])
    /\ ended' = NoRun
    /\ UNCHANGED <<units, db, cfg, user, logs, tracker, tasks>>

----------------------------------------------------------------------------
(* The orchestrator: one run of process_event / process_email_event        *)

InFlight == {"get_user", "lookup", "thread_logs", "backfill_insert", "summary_insert"}

OuterCatch_not_creds(site) == IF site = "creds" THEN "escaped" ELSE "failed"

OuterCatch_not_insert(site) == IF site = "insert" THEN "escaped" ELSE "failed"

\* where an exception that no inner handler took ends up: both orchestrators
\* wrap their whole body in try / except Exception and only log
OuterCatch(site) == "failed"

\* the run returns (or its exception is logged): the task is gone, ended
\* holds what the run did
End(t, r, pc, reason, site) ==
    /\ tasks' = [tasks EXCEPT ![t] = IdleTask]
    /\ ended' = [r EXCEPT !.pc = pc, !.reason = reason, !.site = site,
                          !.existing = <<>>, !.batch = <<>>, !.entry = <<>>,
                          !.stored = {}, !.thread = {}, !.merged = <<>>,
                          !.context = NotReturned]

Return(t, r, reason) == End(t, r, "skipped", reason, "")

Raise(t, r, site) == End(t, r, OuterCatch(site), "error", site)

Continue(t, r) ==
    /\ tasks' = [tasks EXCEPT ![t] = r]
    /\ ended' = NoRun

\* a notification is handed to the orchestrator: callback schedules one task
\* (task slots are interchangeable: the lowest free one is taken)
Start(t) ==
    /\ tasks[t].pc = "idle"
    /\ \A s \in Tasks : s < t => tasks[s].pc # "idle"
    /\ Continue(t, FreshRun)
    /\ UNCHANGED <<units, db, cfg, now, user, mailbox, logs, tracker>>

validate_user_active_exists(u) == u.exists

\* user-active gate (validate_user_active; process_event line 31)
validate_user_active(u) == u.exists /\ u.is_active

TrackerHit_never(message_id) == FALSE

\* duplicate gate, tracker half: only process_event consults its tracker
TrackerHit(message_id) ==
    cfg.orch = "process_event" /\ LocalHistory_is_seen(tracker, message_id)

get_latest_message_oldest == IF mailbox = <<>> THEN 0 ELSE 1

\* messages().list(userId='me', maxResults=1): the id of the newest message
\* (0: the mailbox is empty); historyId plays no part
get_latest_message == Len(mailbox)

\* await get_user_by_email, then the code up to the log lookup
GetUser(t) ==
    LET r == tasks[t]
        m == get_latest_message
    IN
    /\ r.pc = "get_user"
    /\ \/ /\ Raise(t, r, "user")
          /\ UNCHANGED tracker
       \/ /\ ~validate_user_active(user)
          /\ Return(t, r, "inactive")
          /\ UNCHANGED tracker
       \/ /\ validate_user_active(user)
          /\ \/ Raise(t, r, "creds")
             \/ Raise(t, [r EXCEPT !.mail = 1], "mail")
             \/ /\ m = 0
                /\ Return(t, [r EXCEPT !.mail = 1], "empty")
             \/ /\ m > 0
                /\ Raise(t, [r EXCEPT !.mail = 2, !.msg = m], "mail")
          /\ UNCHANGED tracker
       \/ /\ validate_user_active(user)
          /\ m > 0
          /\ LET r2 == [r EXCEPT !.mail = 2, !.msg = m, !.ls = user.last_started_at]
                 email_time == fromtimestamp(mailbox[m].internalDate)
             IN  IF ~validate_email_age(email_time, user.last_started_at)
                 THEN /\ Return(t, r2, "old")
                      /\ UNCHANGED tracker
                 ELSE IF TrackerHit(m)
                 THEN /\ tracker' = TrackerAdd(tracker, m)
                      /\ Return(t, [r2 EXCEPT !.hist = 1], "duplicate")
                 ELSE /\ Continue(t, [r2 EXCEPT !.pc = "lookup"])
                      /\ UNCHANGED tracker
    /\ UNCHANGED <<units, db, cfg, now, user, mailbox, logs>>

\* draft gate (validate_draft_exclusion; process_event line 64)
validate_draft_exclusion(label_ids) == "DRAFT" \notin label_ids

\* a failed or malformed messages.get: process_event lets it reach the outer
\* handler, EmailParser.parse_email turns it into None and the run returns
GetFailed(t, r) ==
    IF cfg.orch = "process_event" THEN Raise(t, r, "mail") ELSE Return(t, r, "unparsed")

----------------------------------------------------------------------------
(* The context assembler: ContextEngine.get_thread_context                 *)

SYSTEM_BACKFILL == "system-backfill"

\* EmailLog(**kw).dict(): the declared fields only (a keyword that is not a
\* field of the model is ignored), direction defaulting to "inbound".
\* by is not stored: it records which component built the log
EmailLog_dict(kw, by) ==
    [message_id |-> kw.message_id, thread_id |-> kw.thread_id,
     summary |-> kw.summary, timestamp |-> kw.timestamp,
     direction |-> IF "direction" \in DOMAIN kw THEN kw.direction ELSE "inbound",
     by |-> by]

\* EmailLog(...).dict() of a backfilled message (lines 36-46)
BackfillLog(id) ==
    EmailLog_dict([message_id |-> id, thread_id |-> mailbox[id].threadId,
                   summary |-> <<"[Backfilled]">>,
                   ai_provider |-> SYSTEM_BACKFILL,
                   timestamp |-> fromtimestamp(mailbox[id].internalDate)],
                  "assembler")

\* threads().get(...)['messages']: the ids of the thread, oldest first
ThreadMessages(thread_id) ==
    SelectSeq([i \in 1..Len(mailbox) |-> i], LAMBDA i : mailbox[i].threadId = thread_id)

\* lines 21-46: the messages to backfill
NewLogsToCreate(messages, current_message_id, existing_logs) ==
    LET keep(id) == ~(id = current_message_id \/ id \in Ids(existing_logs))
        kept == SelectSeq(messages, keep)
    IN  [i \in 1..Len(kept) |-> BackfillLog(kept[i])]

CacheSufficient_strict(existing_logs, limit) == Len(existing_logs) > limit

\* line 14: the persisted logs suffice
CacheSufficient(existing_logs, limit) == Len(existing_logs) >= limit

\* EmailLog(...).dict() of the summarized message (process_event lines 92-96)
SummaryLog(m, summary) ==
    EmailLog_dict([message_id |-> m, thread_id |-> mailbox[m].threadId,
                   summary |-> summary,
                   ai_provider |-> cfg.ai_provider,
                   timestamp |-> fromtimestamp(mailbox[m].internalDate),
                   direction |-> IF "SENT" \in mailbox[m].labelIds THEN "outbound"
                                 ELSE "inbound"],
                  "orchestrator")

\* _format_logs: one line per log, or the fixed sentinel
format_logs(ls) ==
    IF ls = <<>> THEN [text |-> NO_CONTEXT, entries |-> <<>>]
    ELSE [text |-> "entries",
          entries |-> [i \in 1..Len(ls) |->
                         [timestamp |-> ls[i].timestamp, sender |-> ls[i].message_id,
                          summary |-> ls[i].summary]]]

\* the context is back: prompt, AI call, and the summary insert is issued
Summarized(t, r, working, context_str) ==
    LET o == SummarizeOutcome(cfg.ai_provider) IN
    IF o.raised
    THEN Raise(t, r, "prompt")
    ELSE Continue(t, [r EXCEPT !.pc = "summary_insert", !.existing = <<>>, !.batch = <<>>,
                               !.stored = {}, !.thread = {},
                               !.merged = working,
                               !.context = context_str,
                               !.entry = <<SummaryLog(r.msg, o.summary)>>,
                               !.ai = o.ai, !.aifail = o.aifail])

\* the context is the formatting of the last limit of working
Summarize(t, r, working) ==
    Summarized(t, r, working, format_logs(LastN(working, cfg.context_depth)))

\* get_thread_context line 10: no thread id, nothing is read and "" comes back at once
NoThreadContext(t, r) ==
    Summarized(t, r, <<>>, [text |-> "", entries |-> <<>>])

\* await get_email_log_by_message_id, then the code up to the thread-log read
Lookup(t) ==
    LET r == [tasks[t] EXCEPT !.ls = None]
        m == r.msg
    IN
    /\ r.pc = "lookup"
    /\ \/ /\ Raise(t, r, "lookup")
          /\ UNCHANGED tracker
       \/ /\ get_email_log_by_message_id(m)
          /\ tracker' = TrackerAdd(tracker, m)
          /\ Return(t, [r EXCEPT !.hist = 1], "duplicate")
       \/ /\ ~get_email_log_by_message_id(m)
          /\ \/ GetFailed(t, [r EXCEPT !.mail = 3])
             \/ /\ ~validate_draft_exclusion(mailbox[m].labelIds)
                /\ Return(t, [r EXCEPT !.mail = 3], "draft")
             \/ /\ validate_draft_exclusion(mailbox[m].labelIds)
                /\ IF cfg.orch = "process_event" /\ mailbox[m].threadId = NoThread
                   THEN NoThreadContext(t, [r EXCEPT !.mail = 3])
                   ELSE Continue(t, [r EXCEPT !.mail = 3, !.pc = "thread_logs"])
          /\ UNCHANGED tracker
    /\ UNCHANGED <<units, db, cfg, now, user, mailbox, logs>>

\* await get_thread_logs, then the code up to the next insert
ThreadLogs(t) ==
    LET r == tasks[t]
        thread_id == mailbox[r.msg].threadId
        existing_logs == get_thread_logs(thread_id, THREAD_LOG_LIMIT)
        r1 == [r EXCEPT !.nread = Len(existing_logs),
                        !.stored = Ids(SelectThread(logs, thread_id))]
        messages == ThreadMessages(thread_id)
        new_logs == NewLogsToCreate(messages, r.msg, existing_logs)
        r2 == [r1 EXCEPT !.thr = 1]
    IN
    /\ r.pc = "thread_logs"
    /\ \/ Raise(t, r, "thread_logs")
       \/ /\ CacheSufficient(existing_logs, cfg.context_depth)
          /\ Summarize(t, r1, existing_logs)
       \/ /\ ~CacheSufficient(existing_logs, cfg.context_depth)
          /\ \/ Summarize(t, [r2 EXCEPT !.ffail = TRUE], existing_logs)
             \/ /\ new_logs = <<>>
                /\ Summarize(t, r2, existing_logs)
             \/ /\ new_logs # <<>>
                /\ Continue(t, [r2 EXCEPT !.pc = "backfill_insert", !.thread = Range(messages),
                                          !.existing = existing_logs, !.batch = new_logs])
    /\ UNCHANGED <<units, db, cfg, now, user, mailbox, logs, tracker>>

insert_email_logs_replace(new_logs) == new_logs

insert_email_logs_lost(new_logs) == logs

\* MongoEmailRepository.insert_email_logs
insert_email_logs(new_logs) == logs \o new_logs

\* await insert_email_logs(backfill), then the code up to the summary insert
BackfillInsert(t) ==
    LET r == tasks[t] IN
    /\ r.pc = "backfill_insert"
    /\ \/ /\ Summarize(t, r, r.existing)
          /\ UNCHANGED logs
       \/ /\ Len(logs) + Len(r.batch) <= MaxLogs
          /\ logs' = insert_email_logs(r.batch)
          /\ Summarize(t, [r EXCEPT !.nb = 1], SortByTimestamp(r.existing \o r.batch))
    /\ UNCHANGED <<units, db, cfg, now, user, mailbox, tracker>>

get_thread_context(t) ==
    /\ cfg.orch = "process_event"
    /\ (ThreadLogs(t) \/ BackfillInsert(t))

\* ContextBuilder.build_context of process_email_event: the same algorithm
build_context(t) ==
    /\ cfg.orch = "process_email_event"
    /\ (ThreadLogs(t) \/ BackfillInsert(t))

\* await insert_email_logs([log_entry]), then the tracker update
SummaryInsert(t) ==
    LET r == tasks[t] IN
    /\ r.pc = "summary_insert"
    /\ \/ /\ Raise(t, r, "insert")
          /\ UNCHANGED <<logs, tracker>>
       \/ /\ Len(logs) < MaxLogs
          /\ logs' = insert_email_logs(r.entry)
          /\ tracker' = TrackerAdd(tracker, r.msg)
          /\ End(t, [r EXCEPT !.ns = 1, !.hist = 1], "done", "", "")
    /\ UNCHANGED <<units, db, cfg, now, user, mailbox>>

Step(t) ==
    \/ GetUser(t)
    \/ Lookup(t)
    \/ get_thread_context(t)
    \/ build_context(t)
    \/ SummaryInsert(t)

Environment(max) == AuthCallback \/ toggle_status \/ Arrive(max)

\* the event loop: any number of runs in flight
Next == Environment(MaxMsgs) \/ \E t \in Tasks : Start(t) \/ Step(t)

\* overlapping runs are explored for the default deployment of each orchestrator
InitDefault == cfg \in Deployments({DefaultDeployment}) /\ Start0 /\ UnitsIdle

Spec == InitDefault /\ [][Next]_vars

\* runs one after another: a notification is taken up only when no run is in flight
StartAlone(t) ==
    /\ \A s \in Tasks : tasks[s].pc = "idle"
    /\ Start(t)

NextSeq == Environment(MaxMsgsSeq) \/ \E t \in Tasks : StartAlone(t) \/ Step(t)

SpecSeq == Init /\ [][NextSeq]_vars

----------------------------------------------------------------------------
(* Shutdown of the event-processor service (services/event_processor/main.py) *)

\* main is cancelled in its sleep: the finally block cancels the subscription
\* and closes the store connection at once; no task is awaited
Shutdown ==
    /\ db = "connected"
    /\ db' = "closed"
    /\ ended' = NoRun
    /\ UNCHANGED <<units, cfg, now, user, mailbox, logs, tracker, tasks>>

\* asyncio.run cancels what is left on the loop: the task gets CancelledError
\* at the store operation it waits for, which `except Exception` does not
\* take.  An insert already handed to the driver may or may not have landed
Cancelled(t) ==
    LET r == tasks[t] IN
    /\ db = "closed"
    /\ r.pc \in InFlight
    /\ \/ logs' = logs
       \/ /\ r.pc = "backfill_insert"
          /\ Len(logs) + Len(r.batch) <= MaxLogs
          /\ logs' = insert_email_logs(r.batch)
       \/ /\ r.pc = "summary_insert"
          /\ Len(logs) < MaxLogs
          /\ logs' = insert_email_logs(r.entry)
    /\ End(t, r, "cancelled", "cancelled", r.pc)
    /\ UNCHANGED <<units, db, cfg, now, user, mailbox, tracker>>

\* the service while it runs, and its shutdown
Running == db = "connected" /\ Next

NextStop == Running \/ Shutdown \/ \E t \in Tasks : Cancelled(t)

InitStop == InitDefault /\ cfg.orch = "process_event"

SpecStop == InitStop /\ [][NextStop]_vars

----------------------------------------------------------------------------
(* The prompt compositor called on its own *)

TemplatesUpTo(n) == UNION {[1..k -> Pieces] : k \in 0..n}

PromptInputs ==
    [fn : {""}, template : TemplatesUpTo(MaxPieces), context : {"", "ctx"},
     email_content : {"", "snippet"}, result : {None}]

\* the pipeline stands still, in its default deployment
PipelineIdle ==
    /\ cfg \in Deployments({DefaultDeployment})
    /\ cfg.orch = "process_event"
    /\ Start0

InitPrompt == PipelineIdle /\ dedup = NoDedup /\ loop = NoLoop /\ sub = NoSub /\ prompt \in PromptInputs

\* final_prompt = self.prompt_builder.build(context_str=..., email_content=...)
CallBuild ==
    /\ prompt.result = None
    /\ prompt' = [prompt EXCEPT
                     !.fn = "PromptBuilder.build",
                     !.result = Some(PromptBuilder_build(prompt.template, prompt.context,
                                                         prompt.email_content))]
    /\ UNCHANGED <<pipeline, dedup, loop, sub>>

\* prompt = self._build_prompt(template, context, email_content)
CallBuildPrompt ==
    /\ prompt.result = None
    /\ prompt' = [prompt EXCEPT
                     !.fn = "_build_prompt",
                     !.result = Some(build_prompt(prompt.template, prompt.context,
                                                  prompt.email_content))]
    /\ UNCHANGED <<pipeline, dedup, loop, sub>>

NextPrompt == CallBuild \/ CallBuildPrompt

SpecPrompt == InitPrompt /\ [][NextPrompt]_vars

----------------------------------------------------------------------------
(* The deduplication trackers called on their own *)

DedupIds == 1..MaxIds

\* EmailDeduplicator(max_size): the capacities the constructor is given
MaxSizes == {1, HISTORY_MAX_SIZE}

\* LocalHistory() is always built with HISTORY_MAX_SIZE
DedupInputs ==
    {[NoDedup EXCEPT !.kind = "LocalHistory"]}
    \cup {[NoDedup EXCEPT !.kind = "EmailDeduplicator", !.tr.maxlen = max_size] :
             max_size \in MaxSizes}

InitDedup ==
    /\ PipelineIdle
    /\ prompt = NoPrompt
    /\ loop = NoLoop /\ sub = NoSub
    /\ dedup \in DedupInputs

\* what the tracker of this kind reports about an id
Reports(d, message_id) ==
    IF d.kind = "LocalHistory" THEN LocalHistory_is_seen(d.tr, message_id)
    ELSE is_duplicate(d.tr, message_id)

\* the ids in arrival order after a call that was given message_id and left tr
LiveAfter(d, message_id, tr) ==
    LET came == IF Reports(d, message_id) THEN d.live ELSE Append(d.live, message_id)
    IN  SelectSeq(came, LAMBDA x : Reports([d EXCEPT !.tr = tr], x))

\* self._deduplicator.mark_processed(message_id)
CallMarkProcessed ==
    /\ dedup.kind = "EmailDeduplicator"
    /\ Len(dedup.calls) < MaxCalls
    /\ \E message_id \in DedupIds :
          LET tr == mark_processed(dedup.tr, message_id) IN
          dedup' = [dedup EXCEPT !.tr = tr, !.calls = Append(@, message_id),
                                 !.live = LiveAfter(dedup, message_id, tr)]
    /\ UNCHANGED <<pipeline, prompt, loop, sub>>

\* EmailDeduplicator.clear_cache()
CallClearCache ==
    /\ dedup.kind = "EmailDeduplicator"
    /\ dedup' = [dedup EXCEPT !.tr = clear_cache(@), !.calls = <<>>, !.live = <<>>]
    /\ UNCHANGED <<pipeline, prompt, loop, sub>>

\* self.history.add(msg_id)
CallHistoryAdd ==
    /\ dedup.kind = "LocalHistory"
    /\ Len(dedup.calls) < MaxCalls
    /\ \E message_id \in DedupIds :
          LET tr == LocalHistory_add(dedup.tr, message_id) IN
          dedup' = [dedup EXCEPT !.tr = tr, !.calls = Append(@, message_id),
                                 !.live = LiveAfter(dedup, message_id, tr)]
    /\ UNCHANGED <<pipeline, prompt, loop, sub>>

NextDedup == CallMarkProcessed \/ CallClearCache \/ CallHistoryAdd

SpecDedup == InitDedup /\ [][NextDedup]_vars

----------------------------------------------------------------------------
(* The event loop seen on its own.  process_event is a coroutine: it gives *)
(* the loop back only at an `await`; a plain call runs on the loop thread  *)
(* until it returns.  The operations of one run, in program order, with    *)
(* the way the code makes each of them.                                    *)

process_event_ops ==
    << [op |-> "get_user_by_email", how |-> "await"],
       [op |-> "creds.refresh", how |-> "call"],
       [op |-> "messages.list", how |-> "call"],
       [op |-> "messages.get minimal", how |-> "call"],
       [op |-> "get_email_log_by_message_id", how |-> "await"],
       [op |-> "messages.get", how |-> "call"],
       [op |-> "get_thread_logs", how |-> "await"],
       [op |-> "threads.get", how |-> "call"],
       [op |-> "insert_email_logs backfill", how |-> "await"],
       [op |-> "summarize", how |-> "call"],
       [op |-> "insert_email_logs", how |-> "await"] >>

ProviderOps ==
    {"creds.refresh", "messages.list", "messages.get minimal", "messages.get", "threads.get",
     "summarize"}

LoopSet(t, holder, at, phase) ==
    loop' = [holder |-> holder,
             at |-> [loop.at EXCEPT ![t] = at],
             phase |-> [loop.phase EXCEPT ![t] = phase]]

\* callback: run_coroutine_threadsafe puts a new task on the loop
Schedule(t) ==
    /\ loop.phase[t] = "none"
    /\ \A s \in Tasks : s < t => loop.phase[s] # "none"
    /\ LoopSet(t, loop.holder, 1, "ready")
    /\ UNCHANGED <<pipeline, prompt, dedup, sub>>

\* a ready task can be run when no task is on the loop thread
CanRun(t) == loop.holder = 0 /\ loop.phase[t] = "ready"

\* the loop picks a ready task
Run(t) ==
    /\ CanRun(t)
    /\ LoopSet(t, t, loop.at[t], "running")
    /\ UNCHANGED <<pipeline, prompt, dedup, sub>>

\* the running task reaches an awaited operation and gives the loop back
Await(t) ==
    /\ loop.holder = t /\ loop.phase[t] = "running"
    /\ loop.at[t] <= Len(process_event_ops)
    /\ process_event_ops[loop.at[t]].how = "await"
    /\ LoopSet(t, 0, loop.at[t], "awaiting")
    /\ UNCHANGED <<pipeline, prompt, dedup, sub>>

\* the awaited operation completes: the task is ready to go on
Resolve(t) ==
    /\ loop.phase[t] = "awaiting"
    /\ LoopSet(t, loop.holder, loop.at[t] + 1, "ready")
    /\ UNCHANGED <<pipeline, prompt, dedup, sub>>

\* the running task makes a plain call: it stays on the loop thread
BeginCall(t) ==
    /\ loop.holder = t /\ loop.phase[t] = "running"
    /\ loop.at[t] <= Len(process_event_ops)
    /\ process_event_ops[loop.at[t]].how = "call"
    /\ LoopSet(t, t, loop.at[t], "calling")
    /\ UNCHANGED <<pipeline, prompt, dedup, sub>>

\* the call returns
EndCall(t) ==
    /\ loop.holder = t /\ loop.phase[t] = "calling"
    /\ LoopSet(t, t, loop.at[t] + 1, "running")
    /\ UNCHANGED <<pipeline, prompt, dedup, sub>>

\* the running task returns (a gate, the end of the run) or its exception is logged
Finish(t) ==
    /\ loop.holder = t /\ loop.phase[t] = "running"
    /\ LoopSet(t, 0, loop.at[t], "done")
    /\ UNCHANGED <<pipeline, prompt, dedup, sub>>

NextLoop ==
    \E t \in Tasks :
        Schedule(t) \/ Run(t) \/ Await(t) \/ Resolve(t) \/ BeginCall(t) \/ EndCall(t) \/ Finish(t)

InitLoop == PipelineIdle /\ prompt = NoPrompt /\ dedup = NoDedup /\ loop = NoLoop /\ sub = NoSub

SpecLoop == InitLoop /\ [][NextLoop]_vars

----------------------------------------------------------------------------
(* The subscriber callback (services/event_processor/main.py).  Pub/Sub    *)
(* runs callback on its own threads; the scheduled coroutine runs on the   *)
(* thread of MAIN_LOOP.  The two are interleaved freely: each action below *)
(* is one step of one of them.                                             *)

\* message.data: an event object, an object without the two keys, JSON that
\* is not an object, bytes that are not JSON
Payloads == {"event", "empty object", "not an object", "not json"}

\* json.loads succeeds
Loads(payload) == payload # "not json"

\* data.get(...) works on an object only (a missing key gives None)
HasGet(payload) == payload \in {"event", "empty object"}

handler_exit_unless_raised(raised) == IF raised THEN "returned" ELSE "finally"

\* try / except Exception / finally: every way out of the try block goes
\* through the finally block
handler_exit(raised) == "finally"

Delivered(payload) ==
    [payload |-> payload, pc |-> "called", scheduled |-> 0, acks |-> 0,
     task |-> "none", task_at_ack |-> "none"]

\* the subscriber hands a message to callback on one of its threads
Deliver ==
    /\ sub.service = "running"
    /\ Len(sub.notes) < MaxNotes
    /\ \E payload \in Payloads :
          sub' = [sub EXCEPT !.notes = Append(@, Delivered(payload))]
    /\ UNCHANGED <<pipeline, prompt, dedup, loop>>

\* lines 33-35: json.loads and the two data.get calls
Parse(n) ==
    LET note == sub.notes[n] IN
    /\ note.pc = "called"
    /\ sub' = [sub EXCEPT !.notes[n].pc =
                   IF Loads(note.payload) /\ HasGet(note.payload) THEN "parsed"
                   ELSE handler_exit(TRUE)]
    /\ UNCHANGED <<pipeline, prompt, dedup, loop>>

\* line 39: if MAIN_LOOP and not MAIN_LOOP.is_closed() and processor
CheckLoop(n) ==
    LET note == sub.notes[n] IN
    /\ note.pc = "parsed"
    /\ sub' = [sub EXCEPT !.notes[n].pc =
                   IF sub.service = "running" THEN "checked" ELSE handler_exit(FALSE)]
    /\ UNCHANGED <<pipeline, prompt, dedup, loop>>

\* lines 40-43: run_coroutine_threadsafe; it raises RuntimeError when the loop
\* was closed after the check
run_coroutine_threadsafe(n) ==
    LET note == sub.notes[n] IN
    /\ note.pc = "checked"
    /\ sub' = IF sub.service = "running"
              THEN [sub EXCEPT !.notes[n].pc = handler_exit(FALSE),
                               !.notes[n].scheduled = @ + 1,
                               !.notes[n].task = "pending"]
              ELSE [sub EXCEPT !.notes[n].pc = handler_exit(TRUE)]
    /\ UNCHANGED <<pipeline, prompt, dedup, loop>>

\* lines 46-47: finally: message.ack()
Ack(n) ==
    LET note == sub.notes[n] IN
    /\ note.pc = "finally"
    /\ sub' = [sub EXCEPT !.notes[n].pc = "returned",
                          !.notes[n].acks = @ + 1,
                          !.notes[n].task_at_ack = note.task]
    /\ UNCHANGED <<pipeline, prompt, dedup, loop>>

\* the loop thread runs the process_event task of a notification to its end
\* (done, skipped or failed: the steps are those of the orchestrator above)
TaskEnds(n) ==
    /\ sub.service = "running"
    /\ sub.notes[n].task = "pending"
    /\ sub' = [sub EXCEPT !.notes[n].task = "finished"]
    /\ UNCHANGED <<pipeline, prompt, dedup, loop>>

\* main returns and asyncio.run closes the loop; tasks still pending are cancelled
CloseLoop ==
    /\ sub.service = "running"
    /\ sub' = [service |-> "closed",
               notes |-> [n \in 1..Len(sub.notes) |->
                            IF sub.notes[n].task = "pending"
                            THEN [sub.notes[n] EXCEPT !.task = "cancelled"]
                            ELSE sub.notes[n]]]
    /\ UNCHANGED <<pipeline, prompt, dedup, loop>>

callback(n) == Parse(n) \/ CheckLoop(n) \/ run_coroutine_threadsafe(n) \/ Ack(n)

NextSub == Deliver \/ CloseLoop \/ \E n \in 1..Len(sub.notes) : callback(n) \/ TaskEnds(n)

InitSub == PipelineIdle /\ prompt = NoPrompt /\ dedup = NoDedup /\ loop = NoLoop /\ sub = NoSub

SpecSub == InitSub /\ [][NextSub]_vars

----------------------------------------------------------------------------
(* Properties *)

AfterGates == {"thread_logs", "backfill_insert", "summary_insert"}

\* the ended run had passed the user-active, age, duplicate and draft gates
PassedGates(r) ==
    r.pc # "idle" /\ r.mail = 3 /\ r.reason \notin {"draft", "unparsed"} /\ r.site # "mail"

(* C1: in every reachable state, overlapping process_event runs included,  *)
(* the log store holds at most one EmailLog per message_id, summary and    *)
(* backfill logs counted together.                                         *)
C1_OneLogPerMessage ==
    cfg.orch = "process_event" => \A id \in 1..Len(mailbox) : CountId(logs, id) <= 1

(* C2 as stated: with runs one after another, every call that passes the   *)
(* gates writes a log and calls the AI capability, and at most one log     *)
(* with its message_id exists afterwards.                                  *)
C2_PassingCallWrites ==
    PassedGates(ended) =>
        ended.ns = 1 /\ ended.ai = 1 /\ CountId(logs, ended.msg) = 1

(* C2 amended: with runs one after another, a call passes the duplicate    *)
(* gate only while no log with its message_id is stored; a call that       *)
(* passed the gates has written the summary log exactly when it ended as   *)
(* completed; at most one log with the id exists afterwards; and a call    *)
(* skipped by the duplicate gate makes no thread fetch, no AI call and no  *)
(* write.                                                                  *)
C2_Idempotent ==
    /\ \A t \in Tasks : tasks[t].pc \in AfterGates => CountId(logs, tasks[t].msg) = 0
    /\ ended.msg > 0 => CountId(logs, ended.msg) <= 1
    /\ PassedGates(ended) =>
          /\ ended.ns = 1 <=> ended.pc = "done"
          /\ ended.ns = 1 => CountId(logs, ended.msg) = 1
          /\ ended.ai <= 1
    /\ ended.reason = "duplicate" =>
          ended.thr = 0 /\ ended.ai = 0 /\ ended.ns = 0 /\ ended.nb = 0

\* a later call for an id that already has its log is skipped
C2_Witness ==
    ended.reason = "duplicate" /\ ended.hist = 1 /\ CountId(logs, ended.msg) = 1

(* C3: process_event and process_email_event never raise to their caller:  *)
(* every run ends completed, skipped, or failed with the failure caught at *)
(* the orchestrator boundary, whichever collaborator failed.               *)
C3_NeverRaises ==
    /\ ended.pc \in {"idle", "done", "skipped", "failed"}
    /\ \A t \in Tasks : tasks[t].pc \in InFlight \cup {"idle"}

\* a run whose final insert failed
C3_Witness == ended.pc = "failed" /\ ended.site = "insert" /\ ended.ai = 1

(* C4: a run that finds no user record, or is_active false, at the         *)
(* user-active gate ends there: no mail-provider call, no thread fetch, no *)
(* AI call, no log write, no tracker update, user record unchanged.        *)
C4_InactiveNoEffect ==
    [][\A t \in Tasks :
          (tasks[t].pc = "get_user" /\ tasks'[t] # tasks[t] /\ ~(user.exists /\ user.is_active))
          => /\ tasks'[t].pc = "idle"
             /\ ended'.mail = 0 /\ ended'.thr = 0 /\ ended'.ai = 0
             /\ ended'.ns = 0 /\ ended'.nb = 0 /\ ended'.hist = 0
             /\ logs' = logs /\ tracker' = tracker /\ user' = user]_vars

\* a run dropped at the gate although mail was waiting
C4_Witness == ended.reason = "inactive" /\ user.exists /\ mailbox # <<>>

(* C5: for an active user the fetched message is skipped by the age gate   *)
(* (no thread fetch, no AI call, no write, no tracker update) exactly when *)
(* last_started_at is set and the message's own timestamp is strictly      *)
(* earlier than it.                                                        *)
C5_AgeGateExact ==
    /\ ended.reason = "old" =>
          /\ ended.ls # None /\ mailbox[ended.msg].internalDate < ended.ls[1]
          /\ ended.thr = 0 /\ ended.ai = 0 /\ ended.ns = 0 /\ ended.nb = 0 /\ ended.hist = 0
    /\ \A t \in Tasks :
          tasks[t].pc = "lookup" =>
              ~(tasks[t].ls # None /\ mailbox[tasks[t].msg].internalDate < tasks[t].ls[1])

(* C6: no EmailLog of any kind exists for a message that carries the DRAFT *)
(* label, whether it was the newest message of an event or a member of a   *)
(* thread whose context was assembled.                                     *)
C6_NoDraftLogged ==
    cfg.orch = "process_event" =>
        \A i \in 1..Len(logs) : "DRAFT" \notin mailbox[logs[i].message_id].labelIds

(* C7: when all gates pass and the AI capability fails (raises or returns  *)
(* its sentinel), the completed run has persisted exactly one EmailLog for *)
(* the message, and its summary contains the provider name and the failure *)
(* text.                                                                   *)
C7_FailureSummaryNamesProvider ==
    (cfg.orch = "process_event" /\ ended.pc = "done" /\ ended.aifail # "none") =>
        /\ CountId(logs, ended.msg) = 1
        /\ \E i \in 1..Len(logs) :
              /\ logs[i].message_id = ended.msg
              /\ Len(logs[i].summary) >= 2
              /\ \E k \in 1..Len(logs[i].summary) : cfg.ai_provider \in NamesIn(logs[i].summary[k])

(* C8: when settings.ai_provider names no known variant, the configuration *)
(* error raised by AIFactory.get_service is not swallowed: the run does    *)
(* not complete and no EmailLog is persisted whose summary is derived from *)
(* the error.                                                              *)
C8_UnknownProviderNotPersisted ==
    cfg.orch = "process_event" =>
        /\ \A i \in 1..Len(logs) : "Unknown AI Provider:" \notin Range(logs[i].summary)
        /\ ended.pc = "done" => cfg.ai_provider \in KnownProviders

(* C9: in get_thread_context, whenever the number of persisted logs read   *)
(* for the thread is at least depth, the thread fetch is not called and    *)
(* the assembler writes no log.                                            *)
C9_CacheSufficientNoFetch ==
    cfg.orch = "process_event" =>
        \A r \in {tasks[t] : t \in Tasks} \cup {ended} :
            r.nread >= cfg.context_depth =>
                r.thr = 0 /\ r.nb = 0 /\ r.batch = <<>> /\ r.pc # "backfill_insert"

\* a run that completed on the persisted logs alone
C9_Witness ==
    /\ cfg.orch = "process_event"
    /\ ended.pc = "done"
    /\ ended.nread = cfg.context_depth

(* C10: when the persisted logs of the thread are fewer than depth and the *)
(* thread fetch succeeds, the batch the assembler inserts is exactly the   *)
(* provider thread's ids minus the current id minus the ids already        *)
(* persisted, each once, and never the current message.                    *)
C10_BackfillExact ==
    cfg.orch = "process_event" =>
        \A t \in Tasks :
            (tasks[t].pc = "backfill_insert" /\ Cardinality(tasks[t].stored) < cfg.context_depth) =>
                /\ Ids(tasks[t].batch) = (tasks[t].thread \ {tasks[t].msg}) \ tasks[t].stored
                /\ Len(tasks[t].batch) = Cardinality(Ids(tasks[t].batch))

\* the entries of s whose timestamp is at least v
AtLeast(s, v) == Cardinality({i \in 1..Len(s) : s[i].timestamp >= v})

(* C11: the context returned by get_thread_context lists at most depth     *)
(* entries, oldest first, and they are the depth entries with the greatest *)
(* timestamps of the merged set (logs read plus logs newly backfilled).    *)
C11_ContextMostRecent ==
    cfg.orch = "process_event" =>
        \A t \in Tasks :
            tasks[t].pc = "summary_insert" =>
                LET c == tasks[t].context.entries
                    m == tasks[t].merged
                    d == cfg.context_depth
                IN  /\ Len(c) <= d
                    /\ Len(c) = IF Len(m) < d THEN Len(m) ELSE d
                    /\ \A i, j \in 1..Len(c) : i < j => c[i].timestamp <= c[j].timestamp
                    /\ \A i \in 1..Len(c) : \E k \in 1..Len(m) :
                          m[k].message_id = c[i].sender /\ m[k].timestamp = c[i].timestamp
                    /\ \A v \in -1..(MaxTime + 1) :
                          AtLeast(c, v) = IF AtLeast(m, v) < d THEN AtLeast(m, v) ELSE d

\* a context cut down to depth from a merged set with a backfilled, older entry
C11_Witness ==
    /\ cfg.orch = "process_event"
    /\ \E t \in Tasks :
          /\ tasks[t].pc = "summary_insert"
          /\ tasks[t].nb = 1
          /\ Len(tasks[t].merged) > cfg.context_depth
          /\ \E i, j \in 1..Len(tasks[t].merged) :
                tasks[t].merged[i].timestamp < tasks[t].merged[j].timestamp

\* the logs stored for the thread of message m, oldest first
PersistedThread(m) == SortByTimestamp(SelectThread(logs, mailbox[m].threadId))

(* C12: with runs one after another, if the thread fetch (or the parsing   *)
(* of its payload) raises inside get_thread_context, the error is not      *)
(* propagated: the assembler returns the formatting of the most recent     *)
(* depth persisted logs (or the no-history sentinel), writes no backfill,  *)
(* and the run goes on to the AI call and the summary insert.              *)
C12_FetchFailureContained ==
    cfg.orch = "process_event" =>
        /\ ended.ffail => ended.pc = "done" \/ ended.site \in {"prompt", "insert"}
        /\ \A t \in Tasks :
              tasks[t].ffail =>
                  /\ tasks[t].pc = "summary_insert"
                  /\ tasks[t].nb = 0
                  /\ tasks[t].ai = 1 \/ tasks[t].aifail = "raised"
                  /\ tasks[t].context =
                        format_logs(LastN(PersistedThread(tasks[t].msg), cfg.context_depth))

(* C13: get_thread_context never returns the empty string: whatever the    *)
(* thread id, the stored logs, the provider thread and the outcome of the  *)
(* fetch, the context handed to the prompt is at least one formatted entry *)
(* or the fixed no-history sentinel.                                       *)
C13_ContextNeverEmpty ==
    cfg.orch = "process_event" =>
        \A t \in Tasks :
            tasks[t].pc = "summary_insert" =>
                \/ tasks[t].context.entries # <<>> /\ tasks[t].context.text # ""
                \/ tasks[t].context.text = NO_CONTEXT

\* the prompt that str.format makes of a template that can be filled in
Filled(template, context, email_content) ==
    [i \in 1..Len(template) |->
        CASE template[i] = "{context}" -> context
          [] template[i] = "{email_content}" -> email_content
          [] OTHER -> template[i]]

(* C14: PromptBuilder.build never raises: for every template, well-formed  *)
(* or malformed (unknown named field, positional field, unbalanced brace), *)
(* it returns the prompt built from the template or from the default       *)
(* template, with the same context and email_content values.               *)
C14_BuildNeverRaises ==
    (prompt.fn = "PromptBuilder.build" /\ prompt.result # None) =>
        LET c == IF prompt.context # "" THEN prompt.context ELSE NO_HISTORY IN
        /\ prompt.result[1].error = "none"
        /\ prompt.result[1].out \in {Filled(prompt.template, c, prompt.email_content),
                                     Filled(DEFAULT_TEMPLATE, c, prompt.email_content)}

\* the ids in s are pairwise distinct
Distinct(s) == Cardinality(Range(s)) = Len(s)

\* the ids a tracker reports as seen
Reported(d) == {x \in DedupIds : Reports(d, x)}

(* C15: after mark_processed on max_size + 1 distinct ids on a fresh       *)
(* EmailDeduplicator, is_duplicate is true for exactly the max_size most   *)
(* recently inserted ids and false for the single oldest one.              *)
C15_OldestEvicted ==
    (/\ dedup.kind = "EmailDeduplicator"
     /\ Len(dedup.calls) = dedup.tr.maxlen + 1
     /\ Distinct(dedup.calls))
    => /\ Reported(dedup) = Range(LastN(dedup.calls, dedup.tr.maxlen))
       /\ ~is_duplicate(dedup.tr, dedup.calls[1])

(* C16: after every mark_processed call, in any sequence of mark_processed *)
(* and clear_cache calls with repeated ids allowed, the number of ids for  *)
(* which is_duplicate is true never exceeds max_size and the FIFO never    *)
(* holds more than max_size entries (for LocalHistory: after every add).   *)
C16_TrackerBounded ==
    /\ Cardinality(Reported(dedup)) <= dedup.tr.maxlen
    /\ Len(dedup.tr.recent) <= dedup.tr.maxlen
    /\ Cardinality(dedup.tr.seen) <= dedup.tr.maxlen

\* an EmailDeduplicator that was given more distinct ids than it holds
C16_Witness ==
    /\ dedup.kind = "EmailDeduplicator"
    /\ Cardinality(Range(dedup.calls)) > dedup.tr.maxlen
    /\ Cardinality(Reported(dedup)) = dedup.tr.maxlen

(* C17: in every reachable state of EmailDeduplicator the membership set   *)
(* and the FIFO queue hold the same ids: an id is in _seen_ids if and only *)
(* if it occurs in _recent_ids.                                            *)
C17_SetAndQueueAgree ==
    dedup.kind = "EmailDeduplicator" => dedup.tr.seen = Range(dedup.tr.recent)

(* C18: a mark_processed call that overflows the capacity removes exactly  *)
(* one id, the oldest-inserted live one, from both the set and the queue;  *)
(* no call removes more than one entry from either structure; a call that  *)
(* does not overflow removes none.                                         *)
C18_EvictsExactlyOldest ==
    [][(dedup.kind = "EmailDeduplicator" /\ Len(dedup'.calls) = Len(dedup.calls) + 1) =>
          LET message_id == dedup'.calls[Len(dedup'.calls)]
              came == IF is_duplicate(dedup.tr, message_id) THEN dedup.live
                      ELSE Append(dedup.live, message_id)
              gone_set == (dedup.tr.seen \cup {message_id}) \ dedup'.tr.seen
              gone_queue == (Range(dedup.tr.recent) \cup {message_id}) \ Range(dedup'.tr.recent)
              popped == Len(dedup.tr.recent) + 1 - Len(dedup'.tr.recent)
          IN  IF Len(came) > dedup.tr.maxlen
              THEN gone_set = {Head(came)} /\ gone_queue = {Head(came)} /\ popped = 1
              ELSE gone_set = {} /\ gone_queue = {}]_vars

\* the deployment's tracker reports the id
InTracker(message_id) ==
    IF cfg.orch = "process_event" THEN LocalHistory_is_seen(tracker, message_id)
    ELSE is_duplicate(tracker, message_id)

(* C19: for both orchestrators, a run whose fetched message_id has a       *)
(* persisted log or is in the deduplication tracker when the duplicate     *)
(* gate is evaluated does not pass it: the run ends there, having fetched  *)
(* no full message and no thread, made no AI call and written no log.      *)
C19_DuplicateGate ==
    [][\A t \in Tasks :
          /\ (/\ tasks[t].pc = "lookup"
              /\ tasks'[t] # tasks[t]
              /\ CountId(logs, tasks[t].msg) > 0 \/ InTracker(tasks[t].msg))
             => /\ tasks'[t].pc = "idle"
                /\ ended'.msg = tasks[t].msg
                /\ ended'.reason \in {"duplicate", "error"}
                /\ ended'.mail < 3 /\ ended'.thr = 0 /\ ended'.ai = 0
                /\ ended'.ns = 0 /\ ended'.nb = 0
                /\ logs' = logs
          /\ (/\ tasks[t].pc = "get_user"
              /\ tasks'[t].pc = "lookup"
              /\ cfg.orch = "process_event")
             => ~LocalHistory_is_seen(tracker, tasks'[t].msg)]_vars

\* a run skipped as a duplicate whose id was in the tracker already
C19_Witness ==
    /\ ended.reason = "duplicate"
    /\ CountId(logs, ended.msg) = 1
    /\ \E i, j \in 1..Len(tracker.recent) :
          i < j /\ tracker.recent[i] = ended.msg /\ tracker.recent[j] = ended.msg

(* C20: the per-user log query of the dashboard never returns a log that   *)
(* the context assembler created as a backfill entry: it returns only logs *)
(* the orchestrator wrote as AI summaries.                                 *)
C20_NoBackfillInUserLogs ==
    cfg.orch = "process_event" =>
        \A limit \in 1..MaxLogs, direction \in {None, Some("inbound")} :
            \A i \in 1..Len(get_user_logs(limit, direction)) :
                get_user_logs(limit, direction)[i].by = "orchestrator"

(* C21: every false-to-true transition of is_active sets last_started_at   *)
(* to the time of that transition, a true-to-false transition leaves it    *)
(* unchanged, and nothing else changes it; hence whenever is_active is     *)
(* true, last_started_at is set and is the time of the latest activation.  *)
C21_LastStartedAtActivation ==
    [][(user.exists /\ user'.exists) =>
          /\ (~user.is_active /\ user'.is_active) => user'.last_started_at = Some(now')
          /\ (user.is_active /\ ~user'.is_active) =>
                user'.last_started_at = user.last_started_at
          /\ (user.is_active = user'.is_active) => user' = user
          /\ user'.is_active => user'.last_started_at # None /\ user'.last_started_at[1] <= now'
      ]_vars

\* a user switched off again after an activation later than the start
C21_Witness ==
    user.exists /\ ~user.is_active /\ user.last_started_at = Some(MaxTime)

(* C22: within one process_event run no log of any kind, backfill logs     *)
(* included, is written before the AI summarization call of that run has   *)
(* completed: a step of a run that writes finds the call already made.     *)
C22_NoWriteBeforeSummary ==
    [][\A t \in Tasks :
          (/\ cfg.orch = "process_event"
           /\ tasks[t].pc \in {"backfill_insert", "summary_insert"}
           /\ tasks'[t] # tasks[t]
           /\ logs' # logs)
          => tasks[t].ai = 1 \/ tasks[t].aifail # "none"]_vars

C24_CacheSufficientMostRecent ==
    cfg.orch = "process_event" =>
        \A t \in Tasks :
            (/\ tasks[t].pc = "summary_insert"
             /\ tasks[t].nread >= cfg.context_depth
             /\ tasks[t].thr = 0)
            => LET c == tasks[t].context.entries
                   p == PersistedThread(tasks[t].msg)
                   d == cfg.context_depth
               IN  /\ Len(c) = d
                   /\ \A i \in 1..Len(c) : \E k \in 1..Len(p) :
                         p[k].message_id = c[i].sender /\ p[k].timestamp = c[i].timestamp
                   /\ \A v \in -1..(MaxTime + 1) :
                         AtLeast(c, v) = IF AtLeast(p, v) < d THEN AtLeast(p, v) ELSE d

(* C25: in every prompt either compositor returns, on the template path    *)
(* and on the fallback path alike, the context slot is not empty: an empty *)
(* context is replaced by the fixed no-prior-history phrase.               *)
C25_ContextSlotFilled ==
    (prompt.result # None /\ prompt.result[1].error = "none") =>
        LET out == prompt.result[1].out
            c == IF prompt.context # "" THEN prompt.context ELSE NO_HISTORY
            fits == str_format(prompt.template, c, prompt.email_content).error = "none"
        IN  IF fits
            THEN /\ Len(out) = Len(prompt.template)
                 /\ \A k \in 1..Len(out) : prompt.template[k] = "{context}" => out[k] = c
            ELSE IF prompt.fn = "PromptBuilder.build"
            THEN out = Filled(DEFAULT_TEMPLATE, c, prompt.email_content)
            ELSE out[1] = "Context:" /\ out[2] = c

(* C26: the log store is append-only: every step of the system (runs of    *)
(* the orchestrator with the context assembler, toggle, auth callback,     *)
(* mail arrival) leaves every stored EmailLog unchanged and in place, so   *)
(* the stored logs only grow.                                              *)
C26_AppendOnly ==
    [][/\ Len(logs') >= Len(logs)
       /\ SubSeq(logs', 1, Len(logs)) = logs]_vars

\* a store that took a backfill batch and later a summary log
C26_Witness ==
    \E i, j \in 1..Len(logs) :
        i < j /\ logs[i].by = "assembler" /\ logs[j].by = "orchestrator"

(* C27: on shutdown of the event-processor service the store connection is *)
(* closed only after every in-flight process_event task has run to         *)
(* completion: in no reachable state is the connection closed while a      *)
(* started task still has a store read or write ahead of it.               *)
C27_DrainBeforeClose ==
    db = "closed" => \A t \in Tasks : tasks[t].pc \notin InFlight

\* task t is inside a call to the mail provider or the AI provider
InProviderCall(t) ==
    /\ loop.phase[t] = "calling"
    /\ process_event_ops[loop.at[t]].op \in ProviderOps

(* C28: while one process_event task is inside a mail-provider or          *)
(* AI-provider call, the other tasks on the loop can take steps: a task    *)
(* that is ready to run can be run, the call does not hold the loop.       *)
C28_ProviderCallsDoNotBlock ==
    \A t, s \in Tasks :
        (InProviderCall(t) /\ s # t /\ loop.phase[s] = "ready") => CanRun(s)

(* C29: if the mailbox listing returns no messages, or the credential      *)
(* refresh fails, the run ends there: no AI call, no log write, no tracker *)
(* update, and nothing is raised to the caller (both orchestrators).       *)
C29_EmptyOrNoCredentials ==
    [][\A t \in Tasks :
          /\ (/\ tasks[t].pc # "idle" /\ tasks'[t].pc = "idle"
              /\ ended'.reason = "empty" \/ ended'.site = "creds")
             => /\ ended'.pc \in {"skipped", "failed"}
                /\ ended'.msg = 0 /\ ended'.thr = 0 /\ ended'.ai = 0
                /\ ended'.ns = 0 /\ ended'.nb = 0 /\ ended'.hist = 0
                /\ logs' = logs /\ tracker' = tracker
          /\ (/\ tasks[t].pc = "get_user" /\ tasks'[t] # tasks[t]
              /\ validate_user_active(user) /\ mailbox = <<>>)
             => /\ tasks'[t].pc = "idle"
                /\ ended'.reason = "empty" \/ ended'.site \in {"user", "creds", "mail"}
      ]_vars

\* a run whose credential refresh failed while mail was waiting
C29_Witness ==
    ended.pc = "failed" /\ ended.site = "creds" /\ mailbox # <<>> /\ user.is_active

\* the logs a step has appended
Appended == SubSeq(logs', Len(logs) + 1, Len(logs'))

(* C30: each run examines only the message that is the newest one when it  *)
(* fetches, keeps to it, and writes at most one AI-summary log, for that   *)
(* message.  (Hence the execution of C30_Witness: two messages arrive      *)
(* before either notification is processed, both runs complete, and the    *)
(* older message has no AI-summary log.)                                   *)
C30_OnlyNewestMessage ==
    [][\A t \in Tasks :
          /\ (tasks[t].pc = "get_user" /\ tasks'[t].pc = "lookup") =>
                tasks'[t].msg = Len(mailbox)
          /\ (tasks[t].msg # 0 /\ tasks'[t].pc # "idle") => tasks'[t].msg = tasks[t].msg
          /\ (tasks[t].pc # "idle" /\ tasks'[t] # tasks[t]) =>
                \A i \in 1..Len(Appended) :
                    Appended[i].by = "orchestrator" =>
                        /\ Len(Appended) = 1
                        /\ Appended[i].message_id = tasks[t].msg
                        /\ tasks[t].ns = 0 /\ ended'.ns = 1
      ]_vars

\* two messages, two runs ended (one completed, one skipped as a duplicate),
\* both on the newer message: the older one has no AI-summary log
C30_Witness ==
    /\ cfg.orch = "process_event"
    /\ Len(mailbox) = 2
    /\ tracker.recent = <<2, 2>>
    /\ \A t \in Tasks : tasks[t].pc = "idle"
    /\ \E i \in 1..Len(logs) : logs[i].message_id = 2 /\ logs[i].by = "orchestrator"
    /\ \A i \in 1..Len(logs) : logs[i].message_id = 1 => logs[i].by = "assembler"

(* C31: in every reachable state every message_id held in the              *)
(* deduplication tracker (LocalHistory, or EmailDeduplicator in            *)
(* process_email_event) has a persisted EmailLog, so a tracker hit never   *)
(* suppresses a message the persisted-store check would let through.       *)
C31_TrackedIdsArePersisted ==
    /\ \A id \in Range(tracker.recent) \cup tracker.seen : CountId(logs, id) >= 1
    /\ \A id \in 1..Len(mailbox) : InTracker(id) => get_email_log_by_message_id(id)

\* a tracker that holds two different ids, one of them re-added by a duplicate skip
C31_Witness ==
    /\ Cardinality(Range(tracker.recent)) = 2
    /\ ended.reason = "duplicate"
    /\ InTracker(ended.msg)

(* C32: immediately after EmailDeduplicator.mark_processed(id) returns,    *)
(* is_duplicate(id) is true, whatever calls came before: the id just       *)
(* marked is never the one evicted by its own insertion.                   *)
C32_MarkedIsDuplicate ==
    (dedup.kind = "EmailDeduplicator" /\ dedup.calls # <<>>)
    => is_duplicate(dedup.tr, dedup.calls[Len(dedup.calls)])

(* C33: an id added to LocalHistory stays seen until at least max_size     *)
(* distinct other ids have been added after it; re-adding one id again and *)
(* again (the duplicate skip does so) never evicts a different id.         *)
C33_StaysSeenUntilDisplaced ==
    dedup.kind = "LocalHistory" =>
        \A i \in 1..Len(dedup.calls) :
            LET later == {dedup.calls[j] : j \in (i + 1)..Len(dedup.calls)} \ {dedup.calls[i]}
            IN  Cardinality(later) < dedup.tr.maxlen
                => LocalHistory_is_seen(dedup.tr, dedup.calls[i])

(* C34: a process_event run that ends in failure (an exception caught at   *)
(* the orchestrator boundary) leaves the log store as it was when the run  *)
(* started: it has written no log, backfill logs included.                 *)
C34_FailedRunWritesNothing ==
    (cfg.orch = "process_event" /\ ended.pc = "failed")
    => ended.nb = 0 /\ ended.ns = 0

(* C35: when runs do not overlap, the store never holds two logs with the  *)
(* same message_id, whatever the thread size and context_depth (also when  *)
(* the thread has more stored logs than one read returns): the assembler   *)
(* never backfills a message that already has a stored log.                *)
C35_OneLogPerMessage ==
    cfg.orch = "process_event" => \A id \in 1..Len(mailbox) : CountId(logs, id) <= 1

(* C36: no EmailLog is written for the user at a moment when is_active is  *)
(* false, whatever the interleaving of toggles with runs in flight: a run  *)
(* that passed the user-active gate before a deactivation writes nothing   *)
(* after it.                                                               *)
C36_NoWriteWhileInactive ==
    [][logs' # logs => user.exists /\ user.is_active]_vars

(* C37: every notification handed to callback is acknowledged exactly once *)
(* (payload parsed or not, task scheduled or not) and before the task it   *)
(* scheduled has finished; each notification schedules at most one         *)
(* process_event task, and an unparsed one schedules none.                 *)
C37_AckedOnceBeforeTaskEnds ==
    \A n \in 1..Len(sub.notes) :
        LET note == sub.notes[n] IN
        /\ note.acks <= 1
        /\ note.scheduled <= 1
        /\ note.pc = "returned" => note.acks = 1
        /\ note.scheduled = 1 => HasGet(note.payload)
        /\ note.task = "finished" => note.acks = 1

(* C37, as the code has it: every notification handed to callback is       *)
(* acknowledged exactly once by the time callback returns (payload parsed  *)
(* or not, task scheduled or not), without waiting for the task: the ack   *)
(* may come before or after the end of the task.  Each notification        *)
(* schedules at most one process_event task, an unparsed one none, and the *)
(* task exists only once it was scheduled.                                 *)
C37_AckedOnceOnReturn ==
    \A n \in 1..Len(sub.notes) :
        LET note == sub.notes[n] IN
        /\ note.acks <= 1
        /\ note.scheduled <= 1
        /\ (note.pc = "returned") = (note.acks = 1)
        /\ note.scheduled = 1 => HasGet(note.payload)
        /\ (note.task # "none") = (note.scheduled = 1)

\* one notification that did not parse and one whose task was scheduled, both
\* acknowledged, the second one after its task had finished
C37_Witness ==
    \E m, n \in 1..Len(sub.notes) :
        /\ sub.notes[m].payload = "not json" /\ sub.notes[m].acks = 1
        /\ sub.notes[n].scheduled = 1 /\ sub.notes[n].acks = 1
        /\ sub.notes[n].task_at_ack = "finished"

(* C38: every stored EmailLog of a message that carries the SENT label has *)
(* direction "outbound" and every other stored log has direction           *)
(* "inbound", for the orchestrator's logs and for backfill logs alike.     *)
C38_DirectionFollowsSentLabel ==
    cfg.orch = "process_event" =>
        \A i \in 1..Len(logs) :
            logs[i].direction =
                IF "SENT" \in mailbox[logs[i].message_id].labelIds THEN "outbound" ELSE "inbound"

====
